---- MODULE Spec2Model ----
(***************************************************************************)
(* ebolt: an encrypting, path-addressed layer over bbolt.                   *)
(*                                                                         *)
(* The model follows bolt_tx.go (the xact operation set), bolt.go (the bdb *)
(* facade) and cipher.go (segment and value ciphers).  The bbolt engine is *)
(* represented by the behaviour of the calls the code makes on it          *)
(* (Begin, Commit, Rollback, Bucket, CreateBucketIfNotExists, Put, Get,    *)
(* Delete, ForEach, ForEachBucket).                                         *)
(*                                                                         *)
(* Strings are sequences of tokens.  The token "/" is the path separator;  *)
(* the token ".root" stands for the five characters of the reserved        *)
(* segment, every other token for one ordinary character.                  *)
(***************************************************************************)
EXTENDS Integers, Sequences, FiniteSets, TLC

\* ---------------------------------------------------------------- bounds

\* transaction handles the caller holds at one time
MaxTx == 2
\* operations in one run
MaxOps == 3
\* elements of a SetMany / DelMany batch
MaxBatch == 2

\* ---------------------------------------------------------------- inputs

\* leaf paths given to Get / Set / Del
Paths ==
    { <<"x">>,
      <<"a", "/", "x">>,
      <<"a", "/", "b">>,
      <<"a", "/", "b", "/", "x">>,
      <<".root", "/", "x">>,
      <<".root", "/", "a", "/", "x">> }

\* bucket paths given to All / AllKeys / Dir
Dirs ==
    { <<>>,
      <<"a">>,
      <<"a", "/", "b">>,
      <<".root">>,
      <<"b">> }

\* values: the empty value and a non-empty one
Vals == { <<>>, <<7>> }

\* outcomes of randfill for a value nonce
Nonces == { 1, 2 }

\* elements of SetMany batches and of DelMany batches
BatchKV ==
    { [Key |-> <<"a", "/", "b", "/", "x">>, Val |-> <<7>>],
      [Key |-> <<"a", "/", "b">>, Val |-> <<>>] }

BatchKeys == { <<"x">>, <<"a", "/", "x">> }

TxIds == 1 .. MaxTx

\* all sequences over S of length at most n
SeqsUpTo(S, n) == UNION { [1 .. k -> S] : k \in 0 .. n }

\* ---------------------------------------------------------------- values

\* a Go []byte result: nil, or a (possibly empty) byte sequence
NilBytes == [nil |-> TRUE, b |-> << >>]

Bytes(v) == [nil |-> FALSE, b |-> v]

\* a Go error: nil, a bare error of the engine or the cipher (op = ""), or a
\* StorageError{op, key, err} whose innermost cause is `cause`
NoErr == [op |-> "", key |-> << >>, cause |-> "nil"]

BareErr(cause) == [op |-> "", key |-> << >>, cause |-> cause]

StorageError(op, key, cause) == [op |-> op, key |-> key, cause |-> cause]

\* ---------------------------------------------------------------- cipher

\* the encryptor of the open database, identified by its master key
MasterKey == 1

\* other keys a file may be opened with
WrongKeys == { 2 }

\* an encryptor whose keys do not depend on the master key
newEncryptor_fixed(key) == MasterKey

\* the encryptor of a master key: the AEAD keys and the segment nonce are
\* expanded from the key alone, different keys giving different ones
newEncryptor(key) == key

\* AES-GCM nonce and tag sizes
NonceSize == 12

Overhead == 16

\* Seal of one segment under the key cipher and the fixed nonce: a function of
\* the key and the plaintext alone
\* a segment handed on without a seal under the key
encSegment_unsealed(c, s) == [key |-> 0, seg |-> s]

encSegment(c, s) == [key |-> c, seg |-> s]

\* Open of one segment: fails under another key
decSegment(c, v) ==
    IF v.key # c
    THEN [s |-> << >>, err |-> BareErr("cipher: message authentication failed")]
    ELSE [s |-> v.seg, err |-> NoErr]

\* big-endian 32-bit length prefix: uint32(n) keeps every length below 2^32,
\* which covers every length the model can form
enc32(n) == n

dec32(n) == n

\* the stored value of a key that holds no value (a nil slice)
NilCt == [nonce |-> 0, key |-> 0, kl |-> 0, body |-> << >>]

\* encryptKV with the length prefix taken from the value instead of the key
encryptKV_valueLen(c, k, v, nonce) ==
    [nonce |-> nonce, key |-> c, kl |-> enc32(Len(v)), body |-> k \o v]

\* nonce || Seal(enc32(len k) || k || v) under the value cipher
\* a seal of the value alone, without the path
encryptKV_noPath(c, k, v, nonce) ==
    [nonce |-> nonce, key |-> c, kl |-> enc32(0), body |-> v]

encryptKV(c, k, v, nonce) ==
    [nonce |-> nonce, key |-> c, kl |-> enc32(Len(k)), body |-> k \o v]

\* len(ct) of a stored value
\* len(ct): a buffer that nobody sealed (key 0; nil is the empty one) is
\* its bytes, an envelope is nonce, tag, length prefix and body
CtLen(ct) ==
    IF ct.key = 0 THEN Len(ct.body) ELSE NonceSize + Overhead + 4 + Len(ct.body)

decryptKV(c, ct) ==
    IF CtLen(ct) < NonceSize + Overhead + 4
    THEN [k |-> << >>, v |-> NilBytes, err |-> BareErr("aes-gcm decrypt: buf too small")]
    ELSE IF ct.key # c
    THEN [k |-> << >>, v |-> NilBytes, err |-> BareErr("aes-gcm decrypt: authentication failed")]
    ELSE IF Len(ct.body) < dec32(ct.kl)
    THEN [k |-> << >>, v |-> NilBytes, err |-> BareErr("aes-gcm decrypt: pt too small")]
    ELSE [k |-> SubSeq(ct.body, 1, dec32(ct.kl)),
          v |-> Bytes(SubSeq(ct.body, dec32(ct.kl) + 1, Len(ct.body))),
          err |-> NoErr]

\* ---------------------------------------------------------------- paths

\* the first separator of a string that has one
FirstSep(p) ==
    CHOOSE j \in 1 .. Len(p) : p[j] = "/" /\ \A k \in 1 .. j - 1 : p[k] # "/"

\* strings.Split(p, "/"): the segments between separators; one empty segment
\* for the empty string
RECURSIVE Split(_)
SplitAt(p, i) == << SubSeq(p, 1, i - 1) >> \o Split(SubSeq(p, i + 1, Len(p)))

Split(p) ==
    IF \A i \in 1 .. Len(p) : p[i] # "/" THEN << p >> ELSE SplitAt(p, FirstSep(p))

RootSeg == << ".root" >>

\* the switch of splitLeaf on the segments v
splitLeafOf(v) ==
    IF Len(v) = 0 THEN << RootSeg >>
    ELSE IF Len(v) = 1 THEN << RootSeg, v[1] >>
    ELSE v

splitLeaf(p) == splitLeafOf(Split(p))

splitBucket(p) ==
    IF Len(p) = 0 THEN << RootSeg >> ELSE Split(p)

encPath(c, v) == [i \in 1 .. Len(v) |-> encSegment(c, v[i])]

\* ---------------------------------------------------------------- engine

\* The content of a bolt file or of a transaction's view of it: the set of
\* buckets (each named by the encrypted names from the top down) and the
\* values held by the non-bucket keys (each named the same way).
EmptyStore == [bkts |-> {}, kv |-> << >>]

\* the names directly inside the bucket at loc: child buckets and keys
ChildBuckets(s, loc) ==
    { l[Len(l)] : l \in { m \in s.bkts :
          Len(m) = Len(loc) + 1 /\ SubSeq(m, 1, Len(loc)) = loc } }

LeafKeys(s, loc) ==
    { l[Len(l)] : l \in { m \in DOMAIN s.kv :
          Len(m) = Len(loc) + 1 /\ SubSeq(m, 1, Len(loc)) = loc } }

NoBucket == [found |-> FALSE, loc |-> << >>]

\* Bucket.Bucket / Tx.Bucket: the child bucket of that name, or nil
boltBucket(s, loc, name) ==
    IF Append(loc, name) \in s.bkts
    THEN [found |-> TRUE, loc |-> Append(loc, name)]
    ELSE NoBucket

\* Bucket.CreateBucketIfNotExists / Tx.CreateBucketIfNotExists
\* a create that replaces a bucket that is there by an empty one
boltCreateBucketIfNotExists_fresh(t, s, loc, name) ==
    IF t.st # "open" THEN [s |-> s, loc |-> << >>, cause |-> "ErrTxClosed"]
    ELSE IF ~t.wr THEN [s |-> s, loc |-> << >>, cause |-> "ErrTxNotWritable"]
    ELSE IF Append(loc, name) \in DOMAIN s.kv
    THEN [s |-> s, loc |-> << >>, cause |-> "ErrIncompatibleValue"]
    ELSE [s |-> [bkts |-> { m \in s.bkts :
                             ~(Len(m) > Len(loc) + 1
                               /\ SubSeq(m, 1, Len(loc) + 1) = Append(loc, name)) }
                           \cup { Append(loc, name) },
                 kv |-> [l \in { m \in DOMAIN s.kv :
                                   ~(Len(m) > Len(loc) + 1
                                     /\ SubSeq(m, 1, Len(loc) + 1) = Append(loc, name)) }
                           |-> s.kv[l]]],
          loc |-> Append(loc, name), cause |-> "nil"]

boltCreateBucketIfNotExists(t, s, loc, name) ==
    IF t.st # "open" THEN [s |-> s, loc |-> << >>, cause |-> "ErrTxClosed"]
    ELSE IF ~t.wr THEN [s |-> s, loc |-> << >>, cause |-> "ErrTxNotWritable"]
    ELSE IF Append(loc, name) \in s.bkts
    THEN [s |-> s, loc |-> Append(loc, name), cause |-> "nil"]
    ELSE IF Append(loc, name) \in DOMAIN s.kv
    THEN [s |-> s, loc |-> << >>, cause |-> "ErrIncompatibleValue"]
    ELSE [s |-> [s EXCEPT !.bkts = @ \cup { Append(loc, name) }],
          loc |-> Append(loc, name), cause |-> "nil"]

\* a segment that, sealed, is longer than the longest key bolt accepts
LongSeg == << "long" >>

KeyTooLarge(key) == key.seg = LongSeg

\* a Put that does not look whether the key is a bucket
boltPut_over(t, s, loc, key, val) ==
    IF t.st # "open" THEN [s |-> s, cause |-> "ErrTxClosed"]
    ELSE IF ~t.wr THEN [s |-> s, cause |-> "ErrTxNotWritable"]
    ELSE IF KeyTooLarge(key) THEN [s |-> s, cause |-> "ErrKeyTooLarge"]
    ELSE [s |-> [s EXCEPT !.kv =
                    [l \in DOMAIN s.kv \cup { Append(loc, key) } |->
                        IF l = Append(loc, key) THEN val ELSE s.kv[l]]],
          cause |-> "nil"]

\* Bucket.Put

boltPut(t, s, loc, key, val) ==
    IF t.st # "open" THEN [s |-> s, cause |-> "ErrTxClosed"]
    ELSE IF ~t.wr THEN [s |-> s, cause |-> "ErrTxNotWritable"]
    ELSE IF KeyTooLarge(key) THEN [s |-> s, cause |-> "ErrKeyTooLarge"]
    ELSE IF Append(loc, key) \in s.bkts
    THEN [s |-> s, cause |-> "ErrIncompatibleValue"]
    ELSE [s |-> [s EXCEPT !.kv =
                    [l \in DOMAIN s.kv \cup { Append(loc, key) } |->
                        IF l = Append(loc, key) THEN val ELSE s.kv[l]]],
          cause |-> "nil"]

\* Bucket.Get: nil for a missing key and for a key that is a bucket
boltGet(s, loc, key) ==
    IF Append(loc, key) \in DOMAIN s.kv THEN s.kv[Append(loc, key)] ELSE NilCt

\* Bucket.Delete: deleting a missing key succeeds
\* a delete that also removes the bucket once it holds nothing
boltDelete_prune(t, s, loc, key) ==
    IF t.st # "open" THEN [s |-> s, cause |-> "ErrTxClosed"]
    ELSE IF ~t.wr THEN [s |-> s, cause |-> "ErrTxNotWritable"]
    ELSE IF Append(loc, key) \in s.bkts
    THEN [s |-> s, cause |-> "ErrIncompatibleValue"]
    ELSE [s |-> [bkts |-> IF \E m \in (DOMAIN s.kv \cup s.bkts) \ { Append(loc, key) } :
                               Len(m) = Len(loc) + 1 /\ SubSeq(m, 1, Len(loc)) = loc
                          THEN s.bkts ELSE s.bkts \ { loc },
                 kv |-> [l \in DOMAIN s.kv \ { Append(loc, key) } |-> s.kv[l]]],
          cause |-> "nil"]

\* a Delete that does not ask whether the transaction is writable
boltDelete_any(t, s, loc, key) ==
    IF t.st # "open" THEN [s |-> s, cause |-> "ErrTxClosed"]
    ELSE IF Append(loc, key) \in s.bkts
    THEN [s |-> s, cause |-> "ErrIncompatibleValue"]
    ELSE [s |-> [s EXCEPT !.kv =
                    [l \in DOMAIN s.kv \ { Append(loc, key) } |-> s.kv[l]]],
          cause |-> "nil"]

boltDelete(t, s, loc, key) ==
    IF t.st # "open" THEN [s |-> s, cause |-> "ErrTxClosed"]
    ELSE IF ~t.wr THEN [s |-> s, cause |-> "ErrTxNotWritable"]
    ELSE IF Append(loc, key) \in s.bkts
    THEN [s |-> s, cause |-> "ErrIncompatibleValue"]
    ELSE [s |-> [s EXCEPT !.kv =
                    [l \in DOMAIN s.kv \ { Append(loc, key) } |-> s.kv[l]]],
          cause |-> "nil"]

\* the orders in which ForEach may visit the names of S (the byte order of
\* their ciphertexts)
Orders(S) ==
    { q \in [1 .. Cardinality(S) -> S] : \A i, j \in 1 .. Len(q) : i # j => q[i] # q[j] }

\* ForEach visits every key of the bucket, nested buckets included, a nested
\* bucket with a nil value
ForEachNames(s, loc) == ChildBuckets(s, loc) \cup LeafKeys(s, loc)

\* ---------------------------------------------------------------- xact

\* the walk of leaf2bucket / dir2bucket below the first bucket
RECURSIVE Descend(_, _, _, _)
Descend(s, bu, z, i) ==
    IF ~bu.found \/ i > Len(z) THEN bu
    ELSE Descend(s, boltBucket(s, bu.loc, z[i]), z, i + 1)

\* leaf2bucket on the encrypted segments z.  Tx.Bucket on a transaction that
\* was committed or rolled back searches the root bucket the engine has
\* released (no page, no node): a run-time panic
leaf2bucketOf(t, z) ==
    IF t.st # "open"
    THEN [panic |-> TRUE, bu |-> NoBucket, nm |-> z[Len(z)]]
    ELSE [panic |-> FALSE,
          bu |-> Descend(t.view, boltBucket(t.view, << >>, z[1]),
                         SubSeq(z, 1, Len(z) - 1), 2),
          nm |-> z[Len(z)]]

leaf2bucket(c, t, p) == leaf2bucketOf(t, encPath(c, splitLeaf(p)))

dir2bucketOf(t, z) ==
    IF t.st # "open"
    THEN [panic |-> TRUE, bu |-> NoBucket]
    ELSE [panic |-> FALSE,
          bu |-> Descend(t.view, boltBucket(t.view, << >>, z[1]), z, 2)]

dir2bucket(c, t, p) == dir2bucketOf(t, encPath(c, splitBucket(p)))

\* the loop of mkleaf2bucket: buckets made before a failure stay in the view
RECURSIVE Create(_, _, _, _, _)
CreateNext(t, z, i, r) ==
    IF r.cause # "nil" THEN r ELSE Create(t, r.s, r.loc, z, i + 1)

Create(t, s, loc, z, i) ==
    IF i > Len(z) THEN [s |-> s, loc |-> loc, cause |-> "nil"]
    ELSE CreateNext(t, z, i, boltCreateBucketIfNotExists(t, s, loc, z[i]))

\* mkleaf2bucket on the encrypted segments z: r is the outcome of the walk
\* (the view, the bucket, the cause of a failure), nm the encrypted leaf
mkleaf2bucketOf(t, z) ==
    [r |-> Create(t, t.view, << >>, SubSeq(z, 1, Len(z) - 1), 1), nm |-> z[Len(z)]]

mkleaf2bucket(c, t, p) == mkleaf2bucketOf(t, encPath(c, splitLeaf(p)))

\* Get after decryptKV returned d
\* a Get that reports a value it cannot open as absent
xactGetOpened_masked(p, d) ==
    IF d.err # NoErr
    THEN [panic |-> FALSE, val |-> NilBytes, err |-> NoErr]
    ELSE [panic |-> FALSE, val |-> d.v, err |-> NoErr]

xactGetOpened(p, d) ==
    IF d.err # NoErr
    THEN [panic |-> FALSE, val |-> NilBytes, err |-> StorageError("get", p, d.err.cause)]
    ELSE [panic |-> FALSE, val |-> d.v, err |-> NoErr]

\* Get after bu.Get returned v
xactGetValue(c, p, v) ==
    IF v = NilCt
    THEN [panic |-> FALSE, val |-> NilBytes, err |-> NoErr]
    ELSE xactGetOpened(p, decryptKV(c, v))

\* Get after leaf2bucket returned lb
xactGetIn(c, t, p, lb) ==
    IF lb.panic THEN [panic |-> TRUE, val |-> NilBytes, err |-> NoErr]
    ELSE IF ~lb.bu.found
    THEN [panic |-> FALSE, val |-> NilBytes,
          err |-> StorageError("get", p, "bucket not found")]
    ELSE xactGetValue(c, p, boltGet(t.view, lb.bu.loc, lb.nm))

xactGet(c, t, p) == xactGetIn(c, t, p, leaf2bucket(c, t, p))

\* what a write returns after the engine call returned r
WriteResult(op, p, r) ==
    [panic |-> FALSE, s |-> r.s,
     err |-> IF r.cause = "nil" THEN NoErr ELSE StorageError(op, p, r.cause)]

\* Set after mkleaf2bucket returned mb
xactSetIn(c, t, p, v, nonce, mb) ==
    IF mb.r.cause # "nil"
    THEN WriteResult("set", p, mb.r)
    ELSE WriteResult("set", p,
             boltPut(t, mb.r.s, mb.r.loc, mb.nm, encryptKV(c, p, v, nonce)))

xactSet(c, t, p, v, nonce) == xactSetIn(c, t, p, v, nonce, mkleaf2bucket(c, t, p))

\* the loop of SetMany over kv[i ..], sealing element i with nonces[i]; n is
\* the number of elements put before the return
RECURSIVE SetManyLoop(_, _, _, _, _)
SetManyPut(c, t, kv, nonces, i, r) ==
    IF r.cause # "nil"
    THEN [panic |-> FALSE, s |-> r.s, n |-> i - 1,
          err |-> StorageError("set-many", kv[i].Key, r.cause)]
    ELSE SetManyLoop(c, [t EXCEPT !.view = r.s], kv, nonces, i + 1)

SetManyElem(c, t, kv, nonces, i, mb) ==
    IF mb.r.cause # "nil"
    THEN [panic |-> FALSE, s |-> mb.r.s, n |-> i - 1,
          err |-> StorageError("set-many", kv[i].Key, mb.r.cause)]
    ELSE SetManyPut(c, t, kv, nonces, i,
             boltPut(t, mb.r.s, mb.r.loc, mb.nm,
                     encryptKV(c, kv[i].Key, kv[i].Val, nonces[i])))

\* a loop that leaves off after the second element
SetManyLoop_short(c, t, kv, nonces, i) ==
    IF i > Len(kv) \/ i > 2
    THEN [panic |-> FALSE, s |-> t.view, n |-> i - 1, err |-> NoErr]
    ELSE SetManyElem(c, t, kv, nonces, i, mkleaf2bucket(c, t, kv[i].Key))

SetManyLoop(c, t, kv, nonces, i) ==
    IF i > Len(kv) THEN [panic |-> FALSE, s |-> t.view, n |-> i - 1, err |-> NoErr]
    ELSE SetManyElem(c, t, kv, nonces, i, mkleaf2bucket(c, t, kv[i].Key))

\* the one-element case of SetMany after Set returned r
SetManyOne(r) ==
    [panic |-> r.panic, s |-> r.s, n |-> IF r.err = NoErr THEN 1 ELSE 0, err |-> r.err]

xactSetMany(c, t, kv, nonces) ==
    IF Len(kv) = 0 THEN [panic |-> FALSE, s |-> t.view, n |-> 0, err |-> NoErr]
    ELSE IF Len(kv) = 1
    THEN SetManyOne(xactSet(c, t, kv[1].Key, kv[1].Val, nonces[1]))
    ELSE SetManyLoop(c, t, kv, nonces, 1)

\* Del that takes a missing bucket for "nothing to delete"
xactDelIn_silent(t, p, lb) ==
    IF lb.panic THEN [panic |-> TRUE, s |-> t.view, err |-> NoErr]
    ELSE IF ~lb.bu.found THEN [panic |-> FALSE, s |-> t.view, err |-> NoErr]
    ELSE WriteResult("del", p, boltDelete(t, t.view, lb.bu.loc, lb.nm))

\* Del after leaf2bucket returned lb
xactDelIn(t, p, lb) ==
    IF lb.panic THEN [panic |-> TRUE, s |-> t.view, err |-> NoErr]
    ELSE IF ~lb.bu.found
    THEN [panic |-> FALSE, s |-> t.view,
          err |-> StorageError("del", p, "bucket not found")]
    ELSE WriteResult("del", p, boltDelete(t, t.view, lb.bu.loc, lb.nm))

\* a Del that walks to the leaf's bucket with the creating lookup of Set
xactDel_mkIn(t, p, mb) ==
    IF t.st # "open" THEN [panic |-> TRUE, s |-> t.view, err |-> NoErr]
    ELSE IF mb.r.cause # "nil" THEN WriteResult("del", p, mb.r)
    ELSE WriteResult("del", p, boltDelete(t, mb.r.s, mb.r.loc, mb.nm))

xactDel_mk(c, t, p) == xactDel_mkIn(t, p, mkleaf2bucket(c, t, p))

xactDel(c, t, p) == xactDelIn(t, p, leaf2bucket(c, t, p))

\* the loop of DelMany over v[i ..]; n is the number of elements deleted
\* before the return
RECURSIVE DelManyLoop(_, _, _, _)
DelManyElem(c, t, v, i, r) ==
    IF r.panic \/ r.err # NoErr
    THEN [panic |-> r.panic, s |-> r.s, n |-> i - 1, err |-> r.err]
    ELSE DelManyLoop(c, [t EXCEPT !.view = r.s], v, i + 1)

DelManyLoop(c, t, v, i) ==
    IF i > Len(v) THEN [panic |-> FALSE, s |-> t.view, n |-> i - 1, err |-> NoErr]
    ELSE DelManyElem(c, t, v, i, xactDel(c, t, v[i]))

xactDelMany(c, t, v) == DelManyLoop(c, t, v, 1)

\* the callback of All over the names ord[i ..] of the bucket at loc
RECURSIVE AllLoop(_, _, _, _, _, _, _)
AllVisit(c, s, loc, p, ord, i, ret, d) ==
    IF d.err # NoErr
    THEN [ret |-> ret, err |-> StorageError("all", p, d.err.cause)]
    ELSE AllLoop(c, s, loc, p, ord, i + 1,
                 [k \in DOMAIN ret \cup { d.k } |-> IF k = d.k THEN d.v.b ELSE ret[k]])

AllLoop(c, s, loc, p, ord, i, ret) ==
    IF i > Len(ord) THEN [ret |-> ret, err |-> NoErr]
    ELSE AllVisit(c, s, loc, p, ord, i, ret, decryptKV(c, boltGet(s, loc, ord[i])))

\* All returns the map filled so far together with the error of ForEach
AllResult(r) == [panic |-> FALSE, isnil |-> FALSE, ret |-> r.ret, err |-> r.err]

xactAllIn(c, t, p, ord, bu) ==
    IF bu.panic
    THEN [panic |-> TRUE, isnil |-> TRUE, ret |-> << >>, err |-> NoErr]
    ELSE IF ~bu.bu.found
    THEN [panic |-> FALSE, isnil |-> TRUE, ret |-> << >>,
          err |-> StorageError("all", p, "bucket not found")]
    ELSE AllResult(AllLoop(c, t.view, bu.bu.loc, p, ord, 1, << >>))

\* All(p), ForEach visiting the bucket's names in the order ord
xactAll(c, t, p, ord) == xactAllIn(c, t, p, ord, dir2bucket(c, t, p))

RECURSIVE AllKeysLoop(_, _, _, _, _, _, _)
AllKeysVisit(c, s, loc, p, ord, i, keys, d) ==
    IF d.err # NoErr
    THEN [panic |-> FALSE, keys |-> << >>, err |-> StorageError("all", p, d.err.cause)]
    ELSE AllKeysLoop(c, s, loc, p, ord, i + 1, Append(keys, d.k))

AllKeysLoop(c, s, loc, p, ord, i, keys) ==
    IF i > Len(ord) THEN [panic |-> FALSE, keys |-> keys, err |-> NoErr]
    ELSE AllKeysVisit(c, s, loc, p, ord, i, keys, decryptKV(c, boltGet(s, loc, ord[i])))

xactAllKeysIn(c, t, p, ord, bu) ==
    IF bu.panic THEN [panic |-> TRUE, keys |-> << >>, err |-> NoErr]
    ELSE IF ~bu.bu.found
    THEN [panic |-> FALSE, keys |-> << >>,
          err |-> StorageError("all", p, "bucket not found")]
    ELSE AllKeysLoop(c, t.view, bu.bu.loc, p, ord, 1, << >>)

xactAllKeys(c, t, p, ord) == xactAllKeysIn(c, t, p, ord, dir2bucket(c, t, p))

\* the callback of Dir over the child bucket names ord[i ..]
RECURSIVE DirLoop(_, _, _, _)
DirVisit(c, ord, i, ret, d) ==
    IF d.err # NoErr THEN [panic |-> FALSE, keys |-> << >>, err |-> d.err]
    ELSE DirLoop(c, ord, i + 1, Append(ret, d.s))

DirLoop(c, ord, i, ret) ==
    IF i > Len(ord) THEN [panic |-> FALSE, keys |-> ret, err |-> NoErr]
    ELSE DirVisit(c, ord, i, ret, decSegment(c, ord[i]))

xactDirIn(c, p, ord, bu) ==
    IF bu.panic THEN [panic |-> TRUE, keys |-> << >>, err |-> NoErr]
    ELSE IF ~bu.bu.found
    THEN [panic |-> FALSE, keys |-> << >>,
          err |-> StorageError("all", p, "bucket not found")]
    ELSE DirLoop(c, ord, 1, << >>)

xactDir(c, t, p, ord) == xactDirIn(c, p, ord, dir2bucket(c, t, p))

\* the names ForEach visits, and the names ForEachBucket visits, in the
\* bucket bu of the view s
NamesIn(s, bu) == IF bu.bu.found THEN ForEachNames(s, bu.bu.loc) ELSE {}

BucketsIn(s, bu) == IF bu.bu.found THEN ChildBuckets(s, bu.bu.loc) ELSE {}

AllNames(c, t, p) == NamesIn(t.view, dir2bucket(c, t, p))

\* a listing that walks the bucket with ForEach, leaf keys included
DirNames_all(c, t, p) == AllNames(c, t, p)

DirNames(c, t, p) == BucketsIn(t.view, dir2bucket(c, t, p))

\* ---------------------------------------------------------------- state

VARIABLES
    file,       \* the committed content of the bolt file
    opened,     \* bolt.DB is open
    txs,        \* the transaction handles the caller holds
    res,        \* what the last operation returned
    nops        \* operations so far

vars == << file, opened, txs, res, nops >>

\* a handle: st is "free" (no handle), "open" or "closed" (after Commit or
\* Rollback); wr is bolt's writable flag; view is what the transaction sees;
\* w records, per entry (the plaintext segments of its path), the last
\* successful write of the transaction: the value set, or nil for a delete
FreeTx == [st |-> "free", wr |-> FALSE, view |-> EmptyStore, w |-> << >>]

\* for Open: what it was given (the key's length, whether the file existed,
\* whether bolt can open or create it) and whether it created the file
NoOpen == [keylen |-> 0, existed |-> FALSE, openable |-> FALSE, created |-> FALSE]

\* the result of an operation: the handle it ran on (0: the facade), its
\* arguments, what it returned, whether it panicked, and for a facade write
\* the outcome of its deferred commit; for Backup the store it wrote; for a
\* facade call the kind of the transaction it began ("none", "ro", "rw") and
\* the state of that transaction when the call returns
NoRes ==
    [op |-> "", t |-> 0, p |-> << >>, kv |-> << >>, val |-> NilBytes,
     isnil |-> TRUE, all |-> << >>, keys |-> << >>, err |-> NoErr,
     panic |-> FALSE, commit |-> "none", copy |-> EmptyStore,
     txkind |-> "none", txend |-> "none", open |-> NoOpen]

Init ==
    /\ file = EmptyStore
    /\ opened = TRUE
    /\ txs = [t \in TxIds |-> FreeTx]
    /\ res = NoRes
    /\ nops = 0

\* the encryptor every transaction borrows from the open database
Enc == newEncryptor(MasterKey)

WriterOpen == \E t \in TxIds : txs[t].st = "open" /\ txs[t].wr

\* one more operation; a panic ends the program
Step == nops < MaxOps /\ ~res.panic /\ nops' = nops + 1

Held(t) == txs[t].st \in { "open", "closed" }

Record(w, k, v) == [l \in DOMAIN w \cup { k } |-> IF l = k THEN v ELSE w[l]]

RECURSIVE RecordSets(_, _, _)
RecordSets(w, kv, n) ==
    IF n = 0 THEN w
    ELSE Record(RecordSets(w, kv, n - 1), splitLeaf(kv[n].Key), Bytes(kv[n].Val))

RECURSIVE RecordDels(_, _, _)
RecordDels(w, v, n) ==
    IF n = 0 THEN w
    ELSE Record(RecordDels(w, v, n - 1), splitLeaf(v[n]), NilBytes)

\* ---------------------------------------------------------------- transactions

\* db.Begin fails on a closed database; a writable Begin waits for the open
\* writable transaction to end
beginXact(wr) ==
    IF ~opened
    THEN [err |-> StorageError("begin-tx", << >>, "ErrDatabaseNotOpen"), tx |-> FreeTx]
    ELSE [err |-> NoErr,
          tx |-> [st |-> "open", wr |-> wr, view |-> file, w |-> << >>]]

\* a Begin that never waits
BeginBlocks_never(wr) == FALSE

\* a writable Begin that waits for the open read-only transactions as well
BeginBlocks_all(wr) == opened /\ wr /\ \E t \in TxIds : txs[t].st = "open"

\* a Begin that waits for the open writable transaction whatever its own kind
BeginBlocks_readers(wr) == opened /\ WriterOpen

BeginBlocks(wr) == opened /\ wr /\ WriterOpen

BeginTransaction(t, wr) ==
    /\ Step
    /\ txs[t].st # "open"
    /\ ~BeginBlocks(wr)
    /\ \E r \in { beginXact(wr) } :
         /\ txs' = IF r.err = NoErr THEN [txs EXCEPT ![t] = r.tx] ELSE txs
         /\ res' = [NoRes EXCEPT !.op = "Begin", !.t = t, !.err = r.err]
    /\ UNCHANGED << file, opened >>

\* Commit that ends the transaction without writing its view
xactCommit_unwritten(t, ok) ==
    IF t.st # "open" THEN [tx |-> t, file |-> file, err |-> BareErr("ErrTxClosed")]
    ELSE IF ~t.wr THEN [tx |-> t, file |-> file, err |-> BareErr("ErrTxNotWritable")]
    ELSE [tx |-> [t EXCEPT !.st = "closed", !.view = EmptyStore],
          file |-> file, err |-> IF ok THEN NoErr ELSE BareErr("write error")]

\* Tx.Commit: ErrTxClosed on a closed transaction, ErrTxNotWritable on a
\* read-only one (which stays open); otherwise the view becomes the file, or
\* the write fails and the transaction is rolled back
xactCommit(t, ok) ==
    IF t.st # "open" THEN [tx |-> t, file |-> file, err |-> BareErr("ErrTxClosed")]
    ELSE IF ~t.wr THEN [tx |-> t, file |-> file, err |-> BareErr("ErrTxNotWritable")]
    ELSE IF ok
    THEN [tx |-> [t EXCEPT !.st = "closed", !.view = EmptyStore],
          file |-> t.view, err |-> NoErr]
    ELSE [tx |-> [t EXCEPT !.st = "closed", !.view = EmptyStore],
          file |-> file, err |-> BareErr("write error")]

Commit(t) ==
    /\ Step
    /\ Held(t)
    /\ \E ok \in BOOLEAN : \E r \in { xactCommit(txs[t], ok) } :
         /\ txs' = [txs EXCEPT ![t] = r.tx]
         /\ file' = r.file
         /\ res' = [NoRes EXCEPT !.op = "Commit", !.t = t, !.err = r.err]
    /\ UNCHANGED opened

\* Rollback that ends the transaction the way Commit does
xactRollback_commits(t) ==
    IF t.st # "open" THEN [tx |-> t, file |-> file, err |-> BareErr("ErrTxClosed")]
    ELSE [tx |-> [t EXCEPT !.st = "closed", !.view = EmptyStore],
          file |-> IF t.wr THEN t.view ELSE file, err |-> NoErr]

\* Tx.Rollback: ErrTxClosed on a closed transaction; otherwise the view is
\* dropped and the file stays as it is
xactRollback(t) ==
    IF t.st # "open" THEN [tx |-> t, file |-> file, err |-> BareErr("ErrTxClosed")]
    ELSE [tx |-> [t EXCEPT !.st = "closed", !.view = EmptyStore],
          file |-> file, err |-> NoErr]

Rollback(t) ==
    /\ Step
    /\ Held(t)
    /\ \E r \in { xactRollback(txs[t]) } :
         /\ txs' = [txs EXCEPT ![t] = r.tx]
         /\ file' = r.file
         /\ res' = [NoRes EXCEPT !.op = "Rollback", !.t = t, !.err = r.err]
    /\ UNCHANGED opened

TxGet(t, p) ==
    /\ Step
    /\ Held(t)
    /\ \E r \in { xactGet(Enc, txs[t], p) } :
         res' = [NoRes EXCEPT !.op = "Get", !.t = t, !.p = p, !.val = r.val,
                              !.err = r.err, !.panic = r.panic]
    /\ UNCHANGED << file, opened, txs >>

\* Set whose put goes to the file instead of staying in the transaction
TxSet_writeThrough(t, p, v) ==
    /\ Step
    /\ Held(t)
    /\ \E nonce \in Nonces : \E r \in { xactSet(Enc, txs[t], p, v, nonce) } :
         /\ txs' = [txs EXCEPT ![t].view = r.s,
                               ![t].w = IF r.err = NoErr
                                        THEN Record(@, splitLeaf(p), Bytes(v))
                                        ELSE @]
         /\ file' = r.s
         /\ res' = [NoRes EXCEPT !.op = "Set", !.t = t, !.p = p,
                                 !.val = Bytes(v), !.err = r.err]
    /\ UNCHANGED opened

TxSet(t, p, v) ==
    /\ Step
    /\ Held(t)
    /\ \E nonce \in Nonces : \E r \in { xactSet(Enc, txs[t], p, v, nonce) } :
         /\ txs' = [txs EXCEPT ![t].view = r.s,
                               ![t].w = IF r.err = NoErr
                                        THEN Record(@, splitLeaf(p), Bytes(v))
                                        ELSE @]
         /\ res' = [NoRes EXCEPT !.op = "Set", !.t = t, !.p = p,
                                 !.val = Bytes(v), !.err = r.err]
    /\ UNCHANGED << file, opened >>

TxSetMany(t, kv) ==
    /\ Step
    /\ Held(t)
    /\ \E nonces \in [1 .. Len(kv) -> Nonces] :
       \E r \in { xactSetMany(Enc, txs[t], kv, nonces) } :
         /\ txs' = [txs EXCEPT ![t].view = r.s, ![t].w = RecordSets(@, kv, r.n)]
         /\ res' = [NoRes EXCEPT !.op = "SetMany", !.t = t, !.kv = kv, !.err = r.err]
    /\ UNCHANGED << file, opened >>

TxDel(t, p) ==
    /\ Step
    /\ Held(t)
    /\ \E r \in { xactDel(Enc, txs[t], p) } :
         /\ txs' = [txs EXCEPT ![t].view = r.s,
                               ![t].w = IF r.err = NoErr /\ ~r.panic
                                        THEN Record(@, splitLeaf(p), NilBytes)
                                        ELSE @]
         /\ res' = [NoRes EXCEPT !.op = "Del", !.t = t, !.p = p, !.err = r.err,
                                 !.panic = r.panic]
    /\ UNCHANGED << file, opened >>

TxDelMany(t, v) ==
    /\ Step
    /\ Held(t)
    /\ \E r \in { xactDelMany(Enc, txs[t], v) } :
         /\ txs' = [txs EXCEPT ![t].view = r.s, ![t].w = RecordDels(@, v, r.n)]
         /\ res' = [NoRes EXCEPT !.op = "DelMany", !.t = t, !.kv = v,
                                 !.err = r.err, !.panic = r.panic]
    /\ UNCHANGED << file, opened >>

TxAll(t, p) ==
    /\ Step
    /\ Held(t)
    /\ \E ord \in Orders(AllNames(Enc, txs[t], p)) :
       \E r \in { xactAll(Enc, txs[t], p, ord) } :
         res' = [NoRes EXCEPT !.op = "All", !.t = t, !.p = p, !.isnil = r.isnil,
                              !.all = r.ret, !.err = r.err, !.panic = r.panic]
    /\ UNCHANGED << file, opened, txs >>

TxAllKeys(t, p) ==
    /\ Step
    /\ Held(t)
    /\ \E ord \in Orders(AllNames(Enc, txs[t], p)) :
       \E r \in { xactAllKeys(Enc, txs[t], p, ord) } :
         res' = [NoRes EXCEPT !.op = "AllKeys", !.t = t, !.p = p,
                              !.keys = r.keys, !.err = r.err, !.panic = r.panic]
    /\ UNCHANGED << file, opened, txs >>

TxDir(t, p) ==
    /\ Step
    /\ Held(t)
    /\ \E ord \in Orders(DirNames(Enc, txs[t], p)) :
       \E r \in { xactDir(Enc, txs[t], p, ord) } :
         res' = [NoRes EXCEPT !.op = "Dir", !.t = t, !.p = p,
                              !.keys = r.keys, !.err = r.err, !.panic = r.panic]
    /\ UNCHANGED << file, opened, txs >>

\* ---------------------------------------------------------------- facade

\* A facade call runs one operation in a transaction of its own.  Reads defer
\* tx.Rollback(); writes defer tx.Commit(), whose result is dropped.  A write
\* yields the new file content, the error the call returns and the outcome
\* of the deferred commit.

\* what a facade write returns when beginXact failed with b
BeginFailed(b) ==
    [file |-> file, err |-> b.err, commit |-> "none", kind |-> "none", end |-> "none"]

\* the deferred tx.Commit() of a facade write has returned c; the call
\* returns err, the error of the operation
Deferred(err, c) ==
    [file |-> c.file, err |-> err, commit |-> IF c.err = NoErr THEN "ok" ELSE "failed",
     kind |-> IF c.tx.wr THEN "rw" ELSE "ro", end |-> c.tx.st]

\* a facade write after its operation returned r in the transaction tx; ok:
\* whether the write of the deferred commit succeeds
DeferCommit(tx, r, ok) == Deferred(r.err, xactCommit([tx EXCEPT !.view = r.s], ok))

\* the transaction of a facade read that began with b: its kind, and the
\* state its deferred tx.Rollback() leaves it in
ReadCall(b) ==
    IF b.err # NoErr THEN [kind |-> "none", end |-> "none"]
    ELSE [kind |-> IF b.tx.wr THEN "rw" ELSE "ro", end |-> xactRollback(b.tx).tx.st]

bdbGetIn(p, b) ==
    IF b.err # NoErr THEN [panic |-> FALSE, val |-> NilBytes, err |-> b.err]
    ELSE xactGet(Enc, b.tx, p)

bdbGet(p) == bdbGetIn(p, beginXact(FALSE))

bdbSetIn(p, v, nonce, ok, b) ==
    IF b.err # NoErr THEN BeginFailed(b)
    ELSE DeferCommit(b.tx, xactSet(Enc, b.tx, p, v, nonce), ok)

bdbSet(p, v, nonce, ok) == bdbSetIn(p, v, nonce, ok, beginXact(TRUE))

bdbSetManyIn(kv, nonces, ok, b) ==
    IF b.err # NoErr THEN BeginFailed(b)
    ELSE DeferCommit(b.tx, xactSetMany(Enc, b.tx, kv, nonces), ok)

bdbSetMany(kv, nonces, ok) ==
    IF Len(kv) = 0
    THEN [file |-> file, err |-> NoErr, commit |-> "none", kind |-> "none", end |-> "none"]
    ELSE IF Len(kv) = 1 THEN bdbSet(kv[1].Key, kv[1].Val, nonces[1], ok)
    ELSE bdbSetManyIn(kv, nonces, ok, beginXact(TRUE))

bdbDelIn(p, ok, b) ==
    IF b.err # NoErr THEN BeginFailed(b)
    ELSE DeferCommit(b.tx, xactDel(Enc, b.tx, p), ok)

bdbDel(p, ok) == bdbDelIn(p, ok, beginXact(TRUE))

bdbDelManyIn(v, ok, b) ==
    IF b.err # NoErr THEN BeginFailed(b)
    ELSE DeferCommit(b.tx, xactDelMany(Enc, b.tx, v), ok)

bdbDelMany(v, ok) == bdbDelManyIn(v, ok, beginXact(TRUE))

bdbAllIn(p, ord, b) ==
    IF b.err # NoErr
    THEN [panic |-> FALSE, isnil |-> TRUE, ret |-> << >>, err |-> b.err]
    ELSE xactAll(Enc, b.tx, p, ord)

bdbAll(p, ord) == bdbAllIn(p, ord, beginXact(FALSE))

bdbAllKeysIn(p, ord, b) ==
    IF b.err # NoErr THEN [panic |-> FALSE, keys |-> << >>, err |-> b.err]
    ELSE xactAllKeys(Enc, b.tx, p, ord)

bdbAllKeys(p, ord) == bdbAllKeysIn(p, ord, beginXact(FALSE))

bdbDirIn(p, ord, b) ==
    IF b.err # NoErr THEN [panic |-> FALSE, keys |-> << >>, err |-> b.err]
    ELSE xactDir(Enc, b.tx, p, ord)

bdbDir(p, ord) == bdbDirIn(p, ord, beginXact(FALSE))

\* a backup that copies what the open read-write transaction has written so far
xactBackup_dirty(t, ok) ==
    IF ~ok THEN [copy |-> EmptyStore, err |-> BareErr("write error")]
    ELSE IF WriterOpen
    THEN [copy |-> txs[CHOOSE u \in TxIds : txs[u].st = "open" /\ txs[u].wr].view,
          err |-> NoErr]
    ELSE [copy |-> t.view, err |-> NoErr]

\* a backup that returns without writing anything
xactBackup_empty(t, ok) ==
    [copy |-> EmptyStore, err |-> IF ok THEN NoErr ELSE BareErr("write error")]

\* xact.backup: Tx.WriteTo copies the transaction's view to the writer; ok:
\* whether the writer takes every write
xactBackup(t, ok) ==
    IF ok THEN [copy |-> t.view, err |-> NoErr]
    ELSE [copy |-> EmptyStore, err |-> BareErr("write error")]

bdbBackupIn(ok, b) ==
    IF b.err # NoErr THEN [copy |-> EmptyStore, err |-> b.err]
    ELSE xactBackup(b.tx, ok)

bdbBackup(ok) == bdbBackupIn(ok, beginXact(FALSE))

\* the read-only transaction a facade read runs in
ReadTx == beginXact(FALSE).tx

DbGet(p) ==
    /\ Step
    /\ ~BeginBlocks(FALSE)
    /\ \E r \in { bdbGet(p) }, c \in { ReadCall(beginXact(FALSE)) } :
         res' = [NoRes EXCEPT !.op = "Get", !.p = p, !.val = r.val, !.err = r.err,
                              !.txkind = c.kind, !.txend = c.end]
    /\ UNCHANGED << file, opened, txs >>

\* a facade Set whose commit also replaces the snapshot of every open
\* read-only transaction
DbSet_refresh(p, v) ==
    /\ Step
    /\ ~BeginBlocks(TRUE)
    /\ \E nonce \in Nonces, ok \in BOOLEAN : \E r \in { bdbSet(p, v, nonce, ok) } :
         /\ file' = r.file
         /\ txs' = [t \in TxIds |->
                      IF txs[t].st = "open" /\ ~txs[t].wr
                      THEN [txs[t] EXCEPT !.view = r.file] ELSE txs[t]]
         /\ res' = [NoRes EXCEPT !.op = "Set", !.p = p, !.val = Bytes(v),
                                 !.err = r.err, !.commit = r.commit,
                                 !.txkind = r.kind, !.txend = r.end]
    /\ UNCHANGED opened

DbSet(p, v) ==
    /\ Step
    /\ ~BeginBlocks(TRUE)
    /\ \E nonce \in Nonces, ok \in BOOLEAN : \E r \in { bdbSet(p, v, nonce, ok) } :
         /\ file' = r.file
         /\ res' = [NoRes EXCEPT !.op = "Set", !.p = p, !.val = Bytes(v),
                                 !.err = r.err, !.commit = r.commit,
                                 !.txkind = r.kind, !.txend = r.end]
    /\ UNCHANGED << opened, txs >>

DbSetMany(kv) ==
    /\ Step
    /\ Len(kv) > 0 => ~BeginBlocks(TRUE)
    /\ \E nonces \in [1 .. Len(kv) -> Nonces], ok \in BOOLEAN :
       \E r \in { bdbSetMany(kv, nonces, ok) } :
         /\ file' = r.file
         /\ res' = [NoRes EXCEPT !.op = "SetMany", !.kv = kv, !.err = r.err,
                                 !.commit = r.commit,
                                 !.txkind = r.kind, !.txend = r.end]
    /\ UNCHANGED << opened, txs >>

DbDel(p) ==
    /\ Step
    /\ ~BeginBlocks(TRUE)
    /\ \E ok \in BOOLEAN : \E r \in { bdbDel(p, ok) } :
         /\ file' = r.file
         /\ res' = [NoRes EXCEPT !.op = "Del", !.p = p, !.err = r.err,
                                 !.commit = r.commit,
                                 !.txkind = r.kind, !.txend = r.end]
    /\ UNCHANGED << opened, txs >>

DbDelMany(v) ==
    /\ Step
    /\ ~BeginBlocks(TRUE)
    /\ \E ok \in BOOLEAN : \E r \in { bdbDelMany(v, ok) } :
         /\ file' = r.file
         /\ res' = [NoRes EXCEPT !.op = "DelMany", !.kv = v, !.err = r.err,
                                 !.commit = r.commit,
                                 !.txkind = r.kind, !.txend = r.end]
    /\ UNCHANGED << opened, txs >>

DbAll(p) ==
    /\ Step
    /\ ~BeginBlocks(FALSE)
    /\ \E ord \in Orders(AllNames(Enc, ReadTx, p)) :
       \E r \in { bdbAll(p, ord) }, c \in { ReadCall(beginXact(FALSE)) } :
         res' = [NoRes EXCEPT !.op = "All", !.p = p, !.isnil = r.isnil,
                              !.all = r.ret, !.err = r.err,
                              !.txkind = c.kind, !.txend = c.end]
    /\ UNCHANGED << file, opened, txs >>

DbAllKeys(p) ==
    /\ Step
    /\ ~BeginBlocks(FALSE)
    /\ \E ord \in Orders(AllNames(Enc, ReadTx, p)) :
       \E r \in { bdbAllKeys(p, ord) }, c \in { ReadCall(beginXact(FALSE)) } :
         res' = [NoRes EXCEPT !.op = "AllKeys", !.p = p, !.keys = r.keys,
                              !.err = r.err, !.txkind = c.kind, !.txend = c.end]
    /\ UNCHANGED << file, opened, txs >>

DbDir(p) ==
    /\ Step
    /\ ~BeginBlocks(FALSE)
    /\ \E ord \in Orders(DirNames(Enc, ReadTx, p)) :
       \E r \in { bdbDir(p, ord) }, c \in { ReadCall(beginXact(FALSE)) } :
         res' = [NoRes EXCEPT !.op = "Dir", !.p = p, !.keys = r.keys, !.err = r.err,
                              !.txkind = c.kind, !.txend = c.end]
    /\ UNCHANGED << file, opened, txs >>

DbBackup ==
    /\ Step
    /\ ~BeginBlocks(FALSE)
    /\ \E ok \in BOOLEAN :
       \E r \in { bdbBackup(ok) }, c \in { ReadCall(beginXact(FALSE)) } :
         res' = [NoRes EXCEPT !.op = "Backup", !.copy = r.copy, !.err = r.err,
                              !.txkind = c.kind, !.txend = c.end]
    /\ UNCHANGED << file, opened, txs >>

\* bolt's DB.Close waits for every open transaction to end
\* bolt's DB.Close takes the writer lock and the mmap lock: it waits for as
\* long as any transaction is open
CloseBlocks == \E t \in TxIds : txs[t].st = "open"

Close ==
    /\ Step
    /\ ~CloseBlocks
    /\ opened' = FALSE
    /\ res' = [NoRes EXCEPT !.op = "Close"]
    /\ UNCHANGED << file, txs >>

\* ---------------------------------------------------------------- behaviour

KVBatches == SeqsUpTo(BatchKV, MaxBatch)

KeyBatches == SeqsUpTo(BatchKeys, MaxBatch)

Next ==
    \/ \E t \in TxIds, wr \in BOOLEAN : BeginTransaction(t, wr)
    \/ \E t \in TxIds : Commit(t)
    \/ \E t \in TxIds : Rollback(t)
    \/ \E t \in TxIds, p \in Paths : TxGet(t, p)
    \/ \E t \in TxIds, p \in Paths, v \in Vals : TxSet(t, p, v)
    \/ \E t \in TxIds, kv \in KVBatches : TxSetMany(t, kv)
    \/ \E t \in TxIds, p \in Paths : TxDel(t, p)
    \/ \E t \in TxIds, v \in KeyBatches : TxDelMany(t, v)
    \/ \E t \in TxIds, p \in Dirs : TxAll(t, p)
    \/ \E t \in TxIds, p \in Dirs : TxAllKeys(t, p)
    \/ \E t \in TxIds, p \in Dirs : TxDir(t, p)
    \/ \E p \in Paths : DbGet(p)
    \/ \E p \in Paths, v \in Vals : DbSet(p, v)
    \/ \E kv \in KVBatches : DbSetMany(kv)
    \/ \E p \in Paths : DbDel(p)
    \/ \E v \in KeyBatches : DbDelMany(v)
    \/ \E p \in Dirs : DbAll(p)
    \/ \E p \in Dirs : DbAllKeys(p)
    \/ \E p \in Dirs : DbDir(p)
    \/ DbBackup
    \/ Close

Spec == Init /\ [][Next]_vars

\* ------------------------------------------------- a file somebody altered

\* what a leaf of a file that was altered outside the program may hold: an
\* envelope; a buffer shorter than nonce, tag and length prefix; a buffer of
\* that length that no key sealed (a truncated or overwritten envelope); an
\* envelope sealed under another key (its tag fails); and a sealed plaintext
\* whose length prefix exceeds what follows it
StoredValues ==
    { encryptKV(newEncryptor(k), << "x" >>, << 7 >>, 1) : k \in { MasterKey } \cup WrongKeys }
      \cup
    { [nonce |-> 0, key |-> 0, kl |-> 0, body |-> << 0 >>],
      [nonce |-> 0, key |-> 0, kl |-> 0,
       body |-> [i \in 1 .. NonceSize + Overhead + 4 |-> 0]],
      [nonce |-> 1, key |-> newEncryptor(MasterKey), kl |-> enc32(2), body |-> << 7 >>] }

\* what the file may hold as child buckets of bucket a: none, or one whose
\* name does not open under the open key
StoredBuckets ==
    { {} } \cup
    { { << encSegment(Enc, << "a" >>), encSegment(newEncryptor(k), << "b" >>) >> } :
        k \in WrongKeys }

\* files with the buckets .root and a and one leaf x in each, holding any of
\* those values, and with any of those child buckets
TamperedFiles ==
    { [bkts |-> { encPath(Enc, << RootSeg >>), encPath(Enc, << << "a" >> >>) } \cup nb,
       kv |-> (encPath(Enc, << RootSeg, << "x" >> >>) :> c1)
                 @@ (encPath(Enc, << << "a" >>, << "x" >> >>) :> c2)] :
        c1 \in StoredValues, c2 \in StoredValues, nb \in StoredBuckets }

\* the database is opened on such a file
InitTampered ==
    /\ file \in TamperedFiles
    /\ opened = TRUE
    /\ txs = [t \in TxIds |-> FreeTx]
    /\ res = NoRes
    /\ nops = 0

\* the reads, at the facade and in transactions
NextTampered ==
    \/ \E t \in TxIds, wr \in BOOLEAN : BeginTransaction(t, wr)
    \/ \E t \in TxIds : Rollback(t)
    \/ \E t \in TxIds, p \in Paths : TxGet(t, p)
    \/ \E t \in TxIds, p \in Dirs : TxAll(t, p)
    \/ \E t \in TxIds, p \in Dirs : TxAllKeys(t, p)
    \/ \E t \in TxIds, p \in Dirs : TxDir(t, p)
    \/ \E p \in Paths : DbGet(p)
    \/ \E p \in Dirs : DbAll(p)
    \/ \E p \in Dirs : DbAllKeys(p)
    \/ \E p \in Dirs : DbDir(p)

SpecTampered == InitTampered /\ [][NextTampered]_vars

\* ------------------------------------------------------------- long names

\* a path whose leaf segment is too long for a key of the store
LongPath == << "b", "/", "long" >>

\* the program, given that path as well
NextLong ==
    \/ Next
    \/ \E v \in Vals : DbSet(LongPath, v)
    \/ \E t \in TxIds, v \in Vals : TxSet(t, LongPath, v)
    \/ DbDel(LongPath)
    \/ DbGet(LongPath)

SpecLong == Init /\ [][NextLong]_vars

\* ------------------------------------------------ waiting for the writer

\* The calls of the other specifications return at once: a call that would
\* wait is not taken.  Here a goroutine may make such a call and wait in it:
\* txs[t].st is "waiting" while goroutine t is inside BeginTransaction(true),
\* and "calling" while it is inside a facade Set, both held up in db.Begin.
\* Waiting and resuming are parts of one call and are not counted in nops.

Blocked(t) == txs[t].st \in { "waiting", "calling" }

\* BeginTransaction(true) is called while a writable transaction is open
BeginWait(t) ==
    /\ txs[t].st \in { "free", "closed" }
    /\ BeginBlocks(TRUE)
    /\ txs' = [txs EXCEPT ![t] = [FreeTx EXCEPT !.st = "waiting"]]
    /\ UNCHANGED << file, opened, res, nops >>

\* db.Begin of that call gets the writer lock and the call returns
BeginResume(t) ==
    /\ txs[t].st = "waiting"
    /\ ~BeginBlocks(TRUE)
    /\ \E r \in { beginXact(TRUE) } :
         /\ txs' = [txs EXCEPT ![t] = r.tx]
         /\ res' = [NoRes EXCEPT !.op = "Begin", !.t = t, !.err = r.err]
    /\ UNCHANGED << file, opened, nops >>

\* a facade Set is called while a writable transaction is open
SetWait(t) ==
    /\ txs[t].st = "free"
    /\ BeginBlocks(TRUE)
    /\ txs' = [txs EXCEPT ![t] = [FreeTx EXCEPT !.st = "calling"]]
    /\ UNCHANGED << file, opened, res, nops >>

\* db.Begin of that Set gets the writer lock; Set runs and returns
SetResume(t, p, v) ==
    /\ txs[t].st = "calling"
    /\ ~BeginBlocks(TRUE)
    /\ txs' = [txs EXCEPT ![t] = FreeTx]
    /\ UNCHANGED << opened, nops >>
    /\ \E nonce \in Nonces, ok \in BOOLEAN : \E r \in { bdbSet(p, v, nonce, ok) } :
         /\ file' = r.file
         /\ res' = [NoRes EXCEPT !.op = "Set", !.p = p, !.val = Bytes(v),
                                 !.err = r.err, !.commit = r.commit,
                                 !.txkind = r.kind, !.txend = r.end]

\* the paths written here: who gets the lock does not depend on the path
WaitPaths == { << "x" >>, << "a", "/", "x" >> }

NextWait ==
    \/ \E t \in TxIds, wr \in BOOLEAN : ~Blocked(t) /\ BeginTransaction(t, wr)
    \/ \E t \in TxIds : BeginWait(t)
    \/ \E t \in TxIds : BeginResume(t)
    \/ \E t \in TxIds : SetWait(t)
    \/ \E t \in TxIds, p \in WaitPaths, v \in Vals : SetResume(t, p, v)
    \/ \E t \in TxIds : Commit(t)
    \/ \E t \in TxIds : Rollback(t)
    \/ \E t \in TxIds, p \in WaitPaths, v \in Vals : TxSet(t, p, v)
    \/ \E p \in WaitPaths, v \in Vals : DbSet(p, v)
    \/ Close

\* a goroutine held up in db.Begin goes on when the lock stays free: Go's
\* sync.Mutex wakes a waiter on Unlock
\* (for Set, weak fairness of SetResume written with its enabling condition
\* and with what its steps do to txs[t])
FairWait ==
    \A t \in TxIds :
       /\ WF_vars(BeginResume(t))
       /\ \/ []<>~(txs[t].st = "calling" /\ ~BeginBlocks(TRUE))
          \/ []<><<txs[t].st = "calling" /\ txs'[t].st = "free">>_vars

SpecWait == Init /\ [][NextWait]_vars /\ FairWait

\* ------------------------------------------------------------ long batches

\* batches of up to MaxMany elements in which a key comes more than once,
\* with the same value and with another
MaxMany == 3

ManyKV ==
    BatchKV \cup { [Key |-> <<"a", "/", "b", "/", "x">>, Val |-> <<>>],
                   [Key |-> <<"x">>, Val |-> <<7>>] }

ManyBatches == SeqsUpTo(ManyKV, MaxMany)

\* transactions that are given those batches
NextMany ==
    \/ \E t \in TxIds, wr \in BOOLEAN : BeginTransaction(t, wr)
    \/ \E t \in TxIds : Commit(t)
    \/ \E t \in TxIds : Rollback(t)
    \/ \E t \in TxIds, p \in Paths, v \in Vals : TxSet(t, p, v)
    \/ \E t \in TxIds, kv \in ManyBatches : TxSetMany(t, kv)

SpecMany == Init /\ [][NextMany]_vars

\* ------------------------------------------------------------------- Open

\* AES-256-GCM: the key size Open insists on
KeySize == 32

\* lengths of the keys Open is given
KeyLens == { 0, 31, 32, 33 }

\* an Open that looks at the key only after bolt.Open
OpenResult_late(keylen, existed, openable) ==
    IF ~openable
    THEN [err |-> BareErr("bolt.Open"), opened |-> FALSE, created |-> FALSE]
    ELSE IF keylen # KeySize
    THEN [err |-> BareErr("Wrong encryption key size"), opened |-> TRUE,
          created |-> ~existed]
    ELSE [err |-> NoErr, opened |-> TRUE, created |-> ~existed]

\* Open(fn, key, opt): the key's length is tested first; then bolt.Open
\* opens the file, creating it when it is missing; then the encryptor is made
OpenResult(keylen, existed, openable) ==
    IF keylen # KeySize
    THEN [err |-> BareErr("Wrong encryption key size"), opened |-> FALSE,
          created |-> FALSE]
    ELSE IF ~openable
    THEN [err |-> BareErr("bolt.Open"), opened |-> FALSE, created |-> FALSE]
    ELSE [err |-> NoErr, opened |-> TRUE, created |-> ~existed]

Open(keylen, existed, openable) ==
    /\ nops = 0 /\ ~opened
    /\ nops' = 1
    /\ \E r \in { OpenResult(keylen, existed, openable) } :
         /\ opened' = r.opened
         /\ res' = [NoRes EXCEPT !.op = "Open", !.err = r.err,
                                 !.open = [keylen |-> keylen, existed |-> existed,
                                           openable |-> openable,
                                           created |-> r.created]]
    /\ UNCHANGED << file, txs >>

\* before Open there is no database
InitOpen ==
    /\ file = EmptyStore
    /\ opened = FALSE
    /\ txs = [t \in TxIds |-> FreeTx]
    /\ res = NoRes
    /\ nops = 0

\* Open has returned a DB
Handle == nops >= 1 /\ ~(res.op = "Open" /\ res.err # NoErr)

\* Open, then whatever a program does with the DB it returned
NextOpen ==
    \/ \E keylen \in KeyLens, existed \in BOOLEAN, openable \in BOOLEAN :
          Open(keylen, existed, openable)
    \/ Handle /\ Next

SpecOpen == InitOpen /\ [][NextOpen]_vars

\* ---------------------------------------------------------------- properties

\* the content an operation on handle t reads (0: the facade, which reads
\* the file), and whether the handle can run an operation at all
StoreOf(t) == IF t = 0 THEN file ELSE txs[t].view

Usable(t) == IF t = 0 THEN opened ELSE txs[t].st = "open"

\* where a leaf path, its parent bucket and a bucket path live in a store
LeafOf(p) == encPath(Enc, splitLeaf(p))

ParentOf(p) == SubSeq(LeafOf(p), 1, Len(LeafOf(p)) - 1)

BucketOf(p) == encPath(Enc, splitBucket(p))

\* the operation just taken is one on handle res'.t
Took(ops) == nops' = nops + 1 /\ res'.op \in ops

\* the values stored directly in the bucket at loc, by the path each was
\* set with
EntriesIn(s, loc) ==
    { decryptKV(Enc, s.kv[l]) :
        l \in { m \in DOMAIN s.kv :
                  Len(m) = Len(loc) + 1 /\ SubSeq(m, 1, Len(loc)) = loc } }

ExpectedAll(s, loc) ==
    [k \in { e.k : e \in EntriesIn(s, loc) } |->
        (CHOOSE e \in EntriesIn(s, loc) : e.k = k).v.b]

\* C1: round trip.  Once a facade Set(P, V) has returned nil and its commit
\* has gone through, Get(P) returns exactly V with a nil error, for
\* single-segment, two-segment and deep paths and for the empty value,
\* whatever P held before (so the latest committed Set is the one read).
C1_RoundTrip ==
    (res.op = "Set" /\ res.t = 0 /\ res.err = NoErr /\ res.commit = "ok")
        => bdbGet(res.p) = [panic |-> FALSE, val |-> res.val, err |-> NoErr]

\* a committed Set of the empty value on a deep path, after earlier operations
C1_Witness ==
    /\ res.op = "Set" /\ res.t = 0 /\ res.err = NoErr /\ res.commit = "ok"
    /\ res.p = <<"a", "/", "b", "/", "x">>
    /\ res.val = Bytes(<< >>)
    /\ nops = MaxOps

\* every element of the batch in res is in the file: each key set reads back
\* the last value the batch gave it, each key deleted is absent
C2_AllApplied ==
    IF res.op = "SetMany"
    THEN \A i \in 1 .. Len(res.kv) :
            (\A j \in i + 1 .. Len(res.kv) :
                splitLeaf(res.kv[j].Key) # splitLeaf(res.kv[i].Key))
                => bdbGet(res.kv[i].Key).val = Bytes(res.kv[i].Val)
    ELSE \A i \in 1 .. Len(res.kv) : bdbGet(res.kv[i]).val = NilBytes

\* C2: atomic multi-key.  A facade SetMany or DelMany whose storage writes go
\* through is all-or-nothing: it returns nil and every element is committed,
\* or it returns an error and the file is what it was before the call.
C2_AtomicMany ==
    [][(Took({ "SetMany", "DelMany" }) /\ res'.t = 0 /\ res'.commit # "failed")
          => IF res'.err = NoErr THEN C2_AllApplied' ELSE file' = file]_vars

\* C3: enumeration completeness.  All(B) on an existing bucket B returns,
\* with a nil error, exactly the entries stored directly in B, each under the
\* path it was set with and with its current value.
C3_AllComplete ==
    (res.op = "All" /\ Usable(res.t) /\ BucketOf(res.p) \in StoreOf(res.t).bkts)
        => /\ res.err = NoErr
           /\ ~res.isnil
           /\ res.all = ExpectedAll(StoreOf(res.t), BucketOf(res.p))

\* C4: All(B) and AllKeys(B) on an existing bucket B that holds leaf entries
\* and child buckets succeed: the child buckets are skipped.
C4_AllSkipsBuckets ==
    (/\ res.op \in { "All", "AllKeys" }
     /\ Usable(res.t)
     /\ BucketOf(res.p) \in StoreOf(res.t).bkts
     /\ LeafKeys(StoreOf(res.t), BucketOf(res.p)) # {}
     /\ ChildBuckets(StoreOf(res.t), BucketOf(res.p)) # {})
        => res.err = NoErr

\* the path of the operation just taken names nothing in the store the
\* operation ran on: no value for Get and Del, no bucket for All, AllKeys, Dir
C5_Absent ==
    IF res'.op \in { "Get", "Del" }
    THEN LeafOf(res'.p) \notin DOMAIN StoreOf(res'.t).kv
    ELSE BucketOf(res'.p) \notin StoreOf(res'.t).bkts

\* a bucket the operation just taken has to walk through is missing
C5_NoBucket ==
    IF res'.op \in { "Get", "Del" }
    THEN ParentOf(res'.p) \notin StoreOf(res'.t).bkts
    ELSE BucketOf(res'.p) \notin StoreOf(res'.t).bkts

\* C5 as stated: Get, Del, All, AllKeys and Dir on a path that does not exist
\* in the store return an error.
C5_NotFoundSurfaced ==
    [][(Took({ "Get", "Del", "All", "AllKeys", "Dir" }) /\ ~res'.panic /\ C5_Absent)
          => res'.err # NoErr]_vars

\* C5, amended: on a usable handle, Get, Del, All, AllKeys and Dir return a
\* "bucket not found" StorageError and nothing else (nil value, nil map, nil
\* list, nothing changed) when a bucket they walk through does not exist; a
\* key missing from an existing bucket is read by Get as (nil, nil), and Del
\* of it in a writable transaction returns nil.
C5_BucketNotFound ==
    [][(Took({ "Get", "Del", "All", "AllKeys", "Dir" }) /\ Usable(res'.t))
          => /\ C5_NoBucket
                 => /\ res'.err.cause = "bucket not found"
                    /\ res'.err.op \in { "get", "del", "all" }
                    /\ res'.err.key = res'.p
                    /\ res'.val = NilBytes /\ res'.isnil /\ res'.keys = << >>
                    /\ file' = file /\ txs' = txs
             /\ (res'.op = "Get" /\ ~C5_NoBucket /\ C5_Absent)
                 => res'.val = NilBytes /\ res'.err = NoErr
             /\ (/\ res'.op = "Del" /\ ~C5_NoBucket /\ C5_Absent
                 /\ LeafOf(res'.p) \notin StoreOf(res'.t).bkts
                 /\ (res'.t # 0 => txs[res'.t].wr))
                 => res'.err = NoErr]_vars

\* Dir in a transaction whose view holds buckets, on a bucket that is not there
C5_Witness ==
    /\ res.op = "Dir" /\ res.t # 0
    /\ res.err.cause = "bucket not found"
    /\ txs[res.t].st = "open"
    /\ txs[res.t].view.bkts # {}

\* C6: rollback discards.  After a Rollback that returned nil the file is
\* what it was (no value and no bucket of the transaction is in it), and a
\* path the transaction set that was absent before is still absent: Get does
\* not return a value for it.
C6_RollbackDiscards ==
    [][(Took({ "Rollback" }) /\ res'.err = NoErr)
          => /\ file' = file
             /\ \A p \in Paths :
                  (splitLeaf(p) \in DOMAIN txs[res'.t].w /\ bdbGet(p).val = NilBytes)
                      => bdbGet(p)'.val = NilBytes]_vars

\* a read-write transaction that set a value was rolled back, and Get of the
\* path reports that its bucket is not found
C6_Witness ==
    /\ res.op = "Rollback" /\ res.err = NoErr
    /\ txs[res.t].wr
    /\ \E p \in Paths :
         /\ splitLeaf(p) \in DOMAIN txs[res.t].w
         /\ ~txs[res.t].w[splitLeaf(p)].nil
         /\ bdbGet(p).err.cause = "bucket not found"

\* C7: isolation.  A Set, SetMany, Del or DelMany in a transaction leaves the
\* file, which every facade read reads, and every other transaction as they
\* are; with a read-only transaction open beside it, Get of the path written
\* returns in that transaction and through the facade what it returned before.
C7_Isolation ==
    [][(Took({ "Set", "SetMany", "Del", "DelMany" }) /\ res'.t # 0)
          => /\ file' = file /\ opened' = opened
             /\ \A u \in TxIds \ { res'.t } : txs'[u] = txs[u]
             /\ \A u \in TxIds \ { res'.t }, p \in Paths :
                  (txs[u].st = "open" /\ ~txs[u].wr /\ p = res'.p)
                      => /\ xactGet(Enc, txs'[u], p) = xactGet(Enc, txs[u], p)
                         /\ bdbGet(p)' = bdbGet(p)]_vars

\* a read-write transaction has set a value while a read-only one is open
C7_Witness ==
    /\ res.op = "Set" /\ res.t # 0 /\ res.err = NoErr
    /\ txs[res.t].st = "open" /\ txs[res.t].wr
    /\ \E u \in TxIds \ { res.t } : txs[u].st = "open" /\ ~txs[u].wr
    /\ LeafOf(res.p) \in DOMAIN txs[res.t].view.kv
    /\ LeafOf(res.p) \notin DOMAIN file.kv

\* C8: commit visibility.  After Commit returned nil on a read-write
\* transaction, the facade Get and Get in any transaction begun afterwards
\* return, for every path the transaction wrote, the value of its last Set, or
\* nil when its last write was a delete.
C8_CommitVisible ==
    (res.op = "Commit" /\ res.t # 0 /\ res.err = NoErr)
        => \A p \in Paths :
             splitLeaf(p) \in DOMAIN txs[res.t].w
                => /\ bdbGet(p).val = txs[res.t].w[splitLeaf(p)]
                   /\ bdbGet(p).err = NoErr
                   /\ \A wr \in BOOLEAN :
                        xactGet(Enc, beginXact(wr).tx, p) =
                            [panic |-> FALSE, val |-> txs[res.t].w[splitLeaf(p)],
                             err |-> NoErr]

\* a transaction that set a value has been committed
C8_Witness ==
    /\ res.op = "Commit" /\ res.t # 0 /\ res.err = NoErr
    /\ \E k \in DOMAIN txs[res.t].w : ~txs[res.t].w[k].nil

\* C9: an operation on a transaction that was committed or rolled back
\* returns a transaction-closed error and does not panic.
C9_ClosedTxErrors ==
    (/\ res.t # 0
     /\ res.op \in { "Get", "Set", "SetMany", "Del", "DelMany", "All", "AllKeys", "Dir" }
     /\ txs[res.t].st = "closed")
        => ~res.panic /\ res.err.cause = "ErrTxClosed"

\* C10: Commit and Rollback end the transaction, read-only or read-write:
\* after either the transaction is closed, and on a transaction that was
\* closed already they return a transaction-closed error.
C10_TerminatesOnce ==
    [][(Took({ "Commit", "Rollback" }) /\ res'.t # 0)
          => /\ txs'[res'.t].st = "closed"
             /\ txs[res'.t].st = "closed" => res'.err.cause = "ErrTxClosed"]_vars

\* the operations of the facade
FacadeReads == { "Get", "All", "AllKeys", "Dir", "Backup" }

FacadeWrites == { "Set", "SetMany", "Del", "DelMany" }

\* C11: after Close has returned, every facade operation and
\* BeginTransaction returns an error and leaves the file as it is.
C11_ClosedDbErrors ==
    [][(/\ ~opened
        /\ Took(FacadeReads \cup FacadeWrites \cup { "Begin" })
        /\ (res'.t = 0 \/ res'.op = "Begin"))
          => res'.err # NoErr /\ file' = file]_vars

\* the open read-write transactions the caller holds
Writers == { t \in TxIds : txs[t].st = "open" /\ txs[t].wr }

\* C12: single writer.  At most one read-write transaction is open in any
\* state, and a facade write begins its own read-write transaction only
\* when none is open.
C12_SingleWriter ==
    [][/\ Cardinality(Writers') <= 1
       /\ (Took(FacadeWrites) /\ res'.t = 0 /\ res'.txkind = "rw") => Writers = {}]_vars

\* a read-write transaction is open, another handle is free and a further
\* operation could be made: a second writable Begin has to wait
C12_Witness ==
    /\ Cardinality(Writers) = 1
    /\ \E u \in TxIds : txs[u].st = "free"
    /\ nops < MaxOps
    /\ BeginBlocks(TRUE)

\* the open read-only transactions the caller holds
Readers == { t \in TxIds : txs[t].st = "open" /\ ~txs[t].wr }

\* C13: read-only snapshots.  A read-only Begin never waits, whatever else
\* is open; the transaction it returns sees the file as committed at that
\* moment; and as long as a read-only transaction stays open its view does
\* not change, so that when the file changes under it Get returns in it, for
\* every path, what it returned before.
C13_Snapshots ==
    [][/\ ~BeginBlocks(FALSE)
       /\ (Took({ "Begin" }) /\ res'.err = NoErr /\ res'.t \in Readers')
             => txs'[res'.t].view = file
       /\ \A u \in Readers \cap Readers' :
             /\ txs'[u].view = txs[u].view
             /\ file' # file
                   => \A p \in Paths :
                         xactGet(Enc, txs'[u], p) = xactGet(Enc, txs[u], p)]_vars

\* a Get in a read-only transaction whose snapshot is older than the file
C13_Witness ==
    /\ res.op = "Get" /\ res.t \in Readers
    /\ txs[res.t].view # file
    /\ res.err # NoErr

\* C14: Backup beside an open read-write transaction.  Backup runs in a
\* read-only transaction of its own, which a read-write transaction never
\* makes wait; it fails only when its writer fails, and the store it wrote
\* is the committed file, without anything an open transaction has written.
C14_BackupCommitted ==
    /\ Writers # {} => ~BeginBlocks(FALSE)
    /\ (res.op = "Backup" /\ opened)
          => /\ res.txkind = "ro"
             /\ res.err # NoErr => res.err.cause = "write error"
             /\ res.err = NoErr => res.copy = file

\* Backup has returned nil while a read-write transaction holds writes that
\* are not committed
C14_Witness ==
    /\ res.op = "Backup" /\ res.err = NoErr
    /\ \E t \in Writers : txs[t].view # file /\ txs[t].w # << >>

\* a read-only transaction of the DB that Open gives for a backup copy under
\* the same master key
CopyTx(s) == [st |-> "open", wr |-> FALSE, view |-> s, w |-> << >>]

Range(q) == { q[i] : i \in DOMAIN q }

\* C16: AllKeys on an existing bucket returns nil error and the original full
\* path of each leaf entry of the bucket exactly once, the same key set as
\* All returns for that bucket.
C16_AllKeysComplete ==
    (res.op = "AllKeys" /\ Usable(res.t) /\ BucketOf(res.p) \in StoreOf(res.t).bkts)
        => /\ res.err = NoErr
           /\ Cardinality(Range(res.keys)) = Len(res.keys)
           /\ Range(res.keys) = DOMAIN ExpectedAll(StoreOf(res.t), BucketOf(res.p))

\* the plaintext segments the paths are made of
PlainSegs == UNION { Range(splitLeaf(p)) : p \in Paths } \cup
             UNION { Range(splitBucket(d)) : d \in Dirs }

\* C17: Dir on an existing bucket returns nil error and exactly the plaintext
\* names of its immediate child buckets: each child bucket once, no leaf key,
\* no deeper descendant, each name the plaintext segment it was created with.
C17_DirChildren ==
    (res.op = "Dir" /\ Usable(res.t) /\ BucketOf(res.p) \in StoreOf(res.t).bkts)
        => /\ res.err = NoErr
           /\ Cardinality(Range(res.keys)) = Len(res.keys)
           /\ Range(res.keys) =
                 { g \in PlainSegs :
                     Append(BucketOf(res.p), encSegment(Enc, g)) \in StoreOf(res.t).bkts }

\* Dir has listed a bucket that holds a child bucket, which holds a leaf
\* itself, beside a leaf entry
C17_Witness ==
    /\ res.op = "Dir" /\ Usable(res.t) /\ res.err = NoErr
    /\ res.keys # << >>
    /\ LeafKeys(StoreOf(res.t), BucketOf(res.p)) # {}
    /\ \E l \in DOMAIN StoreOf(res.t).kv :
          Len(l) = Len(BucketOf(res.p)) + 2 /\ SubSeq(l, 1, Len(BucketOf(res.p))) = BucketOf(res.p)

\* the paths a Del or DelMany recorded in r was given
Deleted(r) == IF r.op = "Del" THEN { r.p } ELSE Range(r.kv)

\* C18: Del and DelMany remove leaves and nothing else.  On every step by
\* which Del or DelMany returns nil (for the facade: with its commit gone
\* through), in the store the call worked on every bucket is still there,
\* every leaf other than the deleted ones keeps its value, and Get of each
\* deleted path returns a nil value with a nil error.
C18_DelOnlyLeaves ==
    [][(/\ Took({ "Del", "DelMany" })
        /\ res'.err = NoErr /\ ~res'.panic
        /\ res'.t = 0 => res'.commit = "ok")
          => \E before \in { IF res'.t = 0 THEN file ELSE txs[res'.t].view },
                after \in { IF res'.t = 0 THEN file' ELSE txs'[res'.t].view } :
               /\ after.bkts = before.bkts
               /\ after.kv = [l \in DOMAIN before.kv \ { LeafOf(p) : p \in Deleted(res') }
                                |-> before.kv[l]]
               /\ \A p \in Paths :
                     p \in Deleted(res')
                        => IF res'.t = 0
                           THEN bdbGet(p)' = [panic |-> FALSE, val |-> NilBytes, err |-> NoErr]
                           ELSE xactGet(Enc, txs'[res'.t], p)
                                  = [panic |-> FALSE, val |-> NilBytes, err |-> NoErr]]_vars

\* a committed facade Del has emptied a bucket, which is still there, and
\* another leaf is still in the file
C18_Witness ==
    /\ res.op = "Del" /\ res.t = 0 /\ res.err = NoErr /\ res.commit = "ok"
    /\ ParentOf(res.p) \in file.bkts
    /\ ForEachNames(file, ParentOf(res.p)) = {}
    /\ DOMAIN file.kv # {}

\* C19: lookups that only descend create nothing.  A step of Get, All,
\* AllKeys or Dir leaves the file and every transaction as they were; a step
\* of Del or DelMany leaves the buckets of the store it worked on as they
\* were, and a Del that finds a bucket missing leaves that store unchanged;
\* a store gains a bucket only by Set or SetMany on it, or, for the file, by
\* the commit of a transaction.
C19_ReadsCreateNothing ==
    [][/\ Took({ "Get", "All", "AllKeys", "Dir" }) => file' = file /\ txs' = txs
       /\ Took({ "Del", "DelMany" })
             => \E before \in { IF res'.t = 0 THEN file ELSE txs[res'.t].view },
                   after \in { IF res'.t = 0 THEN file' ELSE txs'[res'.t].view } :
                  /\ after.bkts = before.bkts
                  /\ (res'.op = "Del" /\ res'.err.cause = "bucket not found")
                        => after = before
       /\ ~(file'.bkts \subseteq file.bkts)
             => \/ res'.op \in { "Set", "SetMany" } /\ res'.t = 0
                \/ res'.op = "Commit"
       /\ \A t \in TxIds :
             (/\ txs[t].st = "open" /\ txs'[t].st = "open"
              /\ ~(txs'[t].view.bkts \subseteq txs[t].view.bkts))
                => res'.op \in { "Set", "SetMany" } /\ res'.t = t]_vars

\* a facade Del has failed on a missing bucket while the file holds other
\* buckets and leaves
C19_Witness ==
    /\ res.op = "Del" /\ res.t = 0
    /\ res.err.cause = "bucket not found"
    /\ ParentOf(res.p) \notin file.bkts
    /\ file.bkts # {} /\ DOMAIN file.kv # {}

\* C20: every facade call on an open DB has run in one transaction of its
\* kind (read-only for Get, All, AllKeys, Dir and Backup; read-write for
\* Set, SetMany, Del and DelMany), and that transaction is closed when the
\* call returns, whatever the call returns.
C20_OneShotTx ==
    (res.t = 0 /\ opened /\ res.op \in FacadeReads \cup FacadeWrites)
        => /\ res.txkind = IF res.op \in FacadeReads THEN "ro" ELSE "rw"
           /\ res.txend = "closed"

\* C21: a single-segment path is rooted under ".root".  Once a facade
\* Set(P, V) of a single-segment P has returned nil and its commit has gone
\* through, Get(P) returns V, the entry is a leaf of the bucket ".root" and
\* no leaf is at the top level of the file, and All("") returns nil error
\* and a map that gives P the value V.
C21_RootedSingle ==
    (/\ res.op = "Set" /\ res.t = 0 /\ res.err = NoErr /\ res.commit = "ok"
     /\ Len(Split(res.p)) = 1)
        => /\ bdbGet(res.p) = [panic |-> FALSE, val |-> res.val, err |-> NoErr]
           /\ << encSegment(Enc, RootSeg), encSegment(Enc, Split(res.p)[1]) >>
                 \in DOMAIN file.kv
           /\ \A l \in DOMAIN file.kv : Len(l) >= 2
           /\ \A ord \in Orders(AllNames(Enc, ReadTx, << >>)) :
                 /\ bdbAll(<< >>, ord).err = NoErr
                 /\ res.p \in DOMAIN bdbAll(<< >>, ord).ret
                 /\ bdbAll(<< >>, ord).ret[res.p] = res.val.b

\* the stores the engine holds: the file and the view of every open transaction
Stores == { file } \cup { txs[t].view : t \in { u \in TxIds : txs[u].st = "open" } }

C23_WrongKey ==
    /\ \A p \in Paths :
          (bdbGet(p).err = NoErr /\ bdbGet(p).val # NilBytes)
             => /\ xactGet(newEncryptor(MasterKey), CopyTx(file), p) = bdbGet(p)
                /\ \A k \in WrongKeys :
                      \E g \in { xactGet(newEncryptor(k), CopyTx(file), p) } :
                         g.err # NoErr \/ g.val # bdbGet(p).val
    /\ (res.op = "Set" /\ res.t = 0 /\ res.err = NoErr /\ res.commit = "ok")
          => xactGet(newEncryptor(MasterKey), CopyTx(file), res.p).val = res.val

\* a committed Set on a deep path, which a wrong key fails to read
C23_Witness ==
    /\ res.op = "Set" /\ res.t = 0 /\ res.err = NoErr /\ res.commit = "ok"
    /\ Len(Split(res.p)) >= 3
    /\ \A k \in WrongKeys : xactGet(newEncryptor(k), CopyTx(file), res.p).err # NoErr
    /\ Cardinality(DOMAIN file.kv) >= 2

\* the envelopes encryptKV makes under the open key
Envelopes == { encryptKV(Enc, p, v, n) : p \in Paths, v \in Vals, n \in Nonces }

\* the leaf keys of bucket loc of store s that hold something else
BadLeaves(s, loc) ==
    { k \in LeafKeys(s, loc) : s.kv[Append(loc, k)] \notin Envelopes }

\* C24: a stored value that is not an envelope under the open key is always
\* reported.  On a file whose leaves may hold altered values: Get of a path
\* whose leaf holds one returns an error and a nil value; All and AllKeys of
\* a bucket with such a leaf return an error, AllKeys no keys, and All no
\* entry other than those of the bucket's envelopes.
C24_AuthSurfaced ==
    /\ (/\ res.op = "Get" /\ Usable(res.t)
        /\ ParentOf(res.p) \in StoreOf(res.t).bkts
        /\ LeafOf(res.p)[Len(LeafOf(res.p))] \in BadLeaves(StoreOf(res.t), ParentOf(res.p)))
          => res.err # NoErr /\ res.val = NilBytes
    /\ (/\ res.op \in { "All", "AllKeys" } /\ Usable(res.t)
        /\ BucketOf(res.p) \in StoreOf(res.t).bkts
        /\ BadLeaves(StoreOf(res.t), BucketOf(res.p)) # {})
          => /\ res.err # NoErr
             /\ res.keys = << >>
             /\ \A k \in DOMAIN res.all :
                   \E l \in LeafKeys(StoreOf(res.t), BucketOf(res.p))
                            \ BadLeaves(StoreOf(res.t), BucketOf(res.p)) :
                      \E d \in { decryptKV(Enc, StoreOf(res.t).kv[Append(BucketOf(res.p), l)]) } :
                         d.k = k /\ d.v.b = res.all[k]

\* Get has met a leaf that holds a buffer of full length that fails to open
C24_Witness ==
    /\ res.op = "Get" /\ Usable(res.t)
    /\ LeafOf(res.p) \in DOMAIN StoreOf(res.t).kv
    /\ StoreOf(res.t).kv[LeafOf(res.p)] \notin Envelopes
    /\ CtLen(StoreOf(res.t).kv[LeafOf(res.p)]) >= NonceSize + Overhead + 4
    /\ res.err # NoErr

\* the operations that are given a path
PathOps == { "Get", "Set", "Del", "All", "AllKeys", "Dir" }

\* C25: every error an operation on a path returns is a StorageError that
\* carries an operation name and the path the operation was given.
C25_ErrorsWrapped ==
    (res.op \in PathOps /\ Usable(res.t) /\ res.err # NoErr)
        => res.err.op # "" /\ res.err.key = res.p

\* C26: Open and the length of the master key.  When the key is not exactly
\* KeySize bytes long Open returns an error and has neither opened nor
\* created the file; with a key of KeySize bytes and a file bolt can open it
\* returns nil and a DB on which transactions begin.
C26_OpenChecksKey ==
    res.op = "Open"
        => /\ res.open.keylen # KeySize
                => res.err # NoErr /\ ~opened /\ ~res.open.created /\ file = EmptyStore
           /\ (res.open.keylen = KeySize /\ res.open.openable)
                => /\ res.err = NoErr /\ opened
                   /\ beginXact(TRUE).err = NoErr /\ beginXact(FALSE).err = NoErr

\* Open has refused a key one byte short for a file that was not there and
\* that bolt could have created
C26_Witness ==
    /\ res.op = "Open" /\ res.err # NoErr
    /\ res.open.keylen = KeySize - 1
    /\ ~res.open.existed /\ res.open.openable

\* C27: the encryptor is destroyed on close.  Once Close has returned nil,
\* the encryptor the DB holds no longer has the keys of the master key:
\* it opens no name and no envelope that was sealed under the master key.
C27_KeysZeroed ==
    (res.op = "Close" /\ res.err = NoErr /\ ~opened)
        => /\ \A g \in PlainSegs :
                 decSegment(Enc, encSegment(newEncryptor(MasterKey), g)).err # NoErr
           /\ \A p \in Paths, v \in Vals, n \in Nonces :
                 decryptKV(Enc, encryptKV(newEncryptor(MasterKey), p, v, n)).err # NoErr

\* C28: Close with a transaction outstanding is refused or aborts the
\* transaction, and returns: whenever a transaction is open on the open
\* database, a call of Close does not have to wait.
C28_CloseReturns ==
    (opened /\ \E t \in TxIds : txs[t].st = "open") => ~CloseBlocks

BucketChain(p) == { SubSeq(LeafOf(p), 1, i) : i \in 1 .. Len(LeafOf(p)) - 1 }

\* C30: descend-or-create.  On every step by which Set(P, V) returns nil
\* (for the facade: with its commit gone through), the store it worked on
\* has afterwards the buckets it had and those of P's chain, the missing
\* ones created and the others reused with what they hold: every other leaf
\* is where and what it was, and P's leaf is in the last bucket of the chain,
\* which is the same for two paths with the same bucket segments.  When the
\* store held no bucket before, Dir of each bucket of the chain but the last
\* returns just the next segment.
C30_DescendOrCreate ==
    [][(/\ Took({ "Set" })
        /\ res'.err = NoErr /\ ~res'.panic
        /\ res'.t = 0 => res'.commit = "ok")
          => \E before \in { IF res'.t = 0 THEN file ELSE txs[res'.t].view },
                after \in { IF res'.t = 0 THEN file' ELSE txs'[res'.t].view } :
               /\ after.bkts = before.bkts \cup BucketChain(res'.p)
               /\ DOMAIN after.kv = DOMAIN before.kv \cup { LeafOf(res'.p) }
               /\ \A l \in DOMAIN before.kv \ { LeafOf(res'.p) } :
                     after.kv[l] = before.kv[l]
               /\ \A q \in Paths :
                     SubSeq(splitLeaf(q), 1, Len(splitLeaf(q)) - 1)
                        = SubSeq(splitLeaf(res'.p), 1, Len(splitLeaf(res'.p)) - 1)
                        => ParentOf(q) = ParentOf(res'.p)
               /\ before.bkts = {}
                     => \A d \in Dirs : \A i \in 1 .. Len(splitLeaf(res'.p)) - 2 :
                           splitBucket(d) = SubSeq(splitLeaf(res'.p), 1, i)
                              => \A ord \in Orders(DirNames(Enc, CopyTx(after), d)) :
                                    xactDir(Enc, CopyTx(after), d, ord)
                                       = [panic |-> FALSE,
                                          keys |-> << splitLeaf(res'.p)[i + 1] >>,
                                          err |-> NoErr]]_vars

\* a committed Set of a/b/x into a file in which bucket a already held the
\* leaf a/x
C30_Witness ==
    /\ res.op = "Set" /\ res.t = 0 /\ res.err = NoErr /\ res.commit = "ok"
    /\ res.p = << "a", "/", "b", "/", "x" >>
    /\ LeafOf(<< "a", "/", "x" >>) \in DOMAIN file.kv
    /\ LeafOf(res.p) \in DOMAIN file.kv

\* C31: distinct paths address distinct entries.  A facade Set(P, V) or
\* Del(P) leaves the value that Get returns on the committed file for every
\* other path Q as it was.
C31_DistinctPaths ==
    [][(Took({ "Set", "Del" }) /\ res'.t = 0)
          => \A q \in Paths :
                q # res'.p
                   => xactGet(Enc, CopyTx(file'), q).val
                         = xactGet(Enc, CopyTx(file), q).val]_vars

\* C32: a failed facade write changes nothing.  On every step by which a
\* facade Set or Del returns an error, the committed file, buckets and
\* leaves, is afterwards what it was before.
C32_FailedWriteNoChange ==
    [][(Took({ "Set", "Del" }) /\ res'.t = 0 /\ res'.err # NoErr) => file' = file]_vars

\* C33: a facade write returns nil only if its transaction committed.
\* Whenever the commit of a facade Set, SetMany, Del or DelMany has failed,
\* the call has returned an error.
C33_CommitErrorReturned ==
    (res.t = 0 /\ res.op \in FacadeWrites /\ res.commit = "failed") => res.err # NoErr

\* the store handle t works on after the step
StoreOfNext(t) == IF t = 0 THEN file' ELSE txs'[t].view

\* P names a bucket of store s, or a proper prefix of P names a leaf of it
NameTaken(s, p) == LeafOf(p) \in s.bkts \/ BucketChain(p) \cap DOMAIN s.kv # {}

C34_WitnessPrefix ==
    /\ res.op = "Set"
    /\ res.err # NoErr
    /\ res.err.cause = "ErrIncompatibleValue"
    /\ BucketChain(res.p) \cap DOMAIN StoreOf(res.t).kv # {}

\* the request of goroutine t is answered in this step with a writable
\* transaction
GrantedNext(t) ==
    \/ txs[t].st = "waiting" /\ txs'[t].st = "open" /\ txs'[t].wr
    \/ txs[t].st = "calling" /\ res'.op = "Set" /\ res'.txkind = "rw"

\* the request of goroutine t is answered in this step
Answered(t) == Blocked(t) /\ txs'[t] # txs[t]

RECURSIVE SetEach(_, _, _, _, _)
SetEachNext(c, t, kv, nonces, i, r) ==
    IF r.err # NoErr THEN [s |-> r.s, ok |-> FALSE]
    ELSE SetEach(c, [t EXCEPT !.view = r.s], kv, nonces, i + 1)

SetEach(c, t, kv, nonces, i) ==
    IF i > Len(kv) THEN [s |-> t.view, ok |-> TRUE]
    ELSE SetEachNext(c, t, kv, nonces, i,
                     xactSet(c, t, kv[i].Key, kv[i].Val, nonces[i]))

\* element i is the last of kv with its key
LastOf(kv, i) == \A j \in DOMAIN kv : j > i => LeafOf(kv[j].Key) # LeafOf(kv[i].Key)

\* C36: tx.SetMany(kv) does to the transaction what tx.Set does, called on
\* each element in order as far as the calls succeed.  On every step of
\* tx.SetMany the view is afterwards the one those calls leave, and SetMany
\* returns nil exactly when each of them does; then every key reads back
\* with the value of its last occurrence; with the empty list SetMany
\* returns nil and the transaction is as it was.
C36_SetManyAsSets ==
    [][\A t \in TxIds :
         (Took({ "SetMany" }) /\ res'.t = t)
            => /\ \E nonces \in [DOMAIN res'.kv -> Nonces] :
                  \E e \in { SetEach(Enc, txs[t], res'.kv, nonces, 1) } :
                     /\ txs'[t].view = e.s
                     /\ (res'.err = NoErr) = e.ok
               /\ res'.err = NoErr
                     => \A i \in DOMAIN res'.kv :
                           LastOf(res'.kv, i)
                              => xactGet(Enc, txs'[t], res'.kv[i].Key).val
                                    = Bytes(res'.kv[i].Val)
               /\ Len(res'.kv) = 0 => (res'.err = NoErr /\ txs'[t] = txs[t])]_vars

\* SetMany has returned nil on three elements of which two have the same
\* key and different values
C36_Witness ==
    /\ res.op = "SetMany"
    /\ res.t \in TxIds
    /\ res.err = NoErr
    /\ Len(res.kv) = 3
    /\ \E i, j \in DOMAIN res.kv :
          /\ i < j
          /\ res.kv[i].Key = res.kv[j].Key
          /\ res.kv[i].Val # res.kv[j].Val
          /\ LastOf(res.kv, j)
          /\ xactGet(Enc, txs[res.t], res.kv[j].Key).val = Bytes(res.kv[j].Val)

\* the step is a write on the open read-only transaction t, with at least
\* one element if it takes a list
ReadOnlyWrite(t) ==
    /\ Took({ "Set", "SetMany", "Del", "DelMany" })
    /\ res'.t = t
    /\ txs[t].st = "open"
    /\ ~txs[t].wr
    /\ res'.op \in { "SetMany", "DelMany" } => Len(res'.kv) > 0

\* C37: writes on a read-only transaction.  On every step by which Set,
\* SetMany, Del or DelMany (the last two with at least one element) is called
\* on an open read-only transaction, the call returns an error, and the
\* transaction's view and the committed file are what they were.
C37_ReadOnlyRefuses ==
    [][\A t \in TxIds :
         ReadOnlyWrite(t)
            => /\ res'.err # NoErr
               /\ ~res'.panic
               /\ txs'[t].view = txs[t].view
               /\ txs'[t].st = "open"
               /\ file' = file]_vars

\* Del has been refused on a read-only transaction that reads the leaf
C37_Witness ==
    /\ res.op = "Del"
    /\ res.t \in TxIds
    /\ txs[res.t].st = "open"
    /\ ~txs[res.t].wr
    /\ res.err # NoErr
    /\ res.err.cause = "ErrTxNotWritable"
    /\ LeafOf(res.p) \in DOMAIN txs[res.t].view.kv

\* the path string of the bucket that holds the leaf of path p
DirOf(p) ==
    IF \E i \in DOMAIN p : p[i] = "/"
    THEN SubSeq(p, 1, (CHOOSE i \in DOMAIN p :
                          p[i] = "/" /\ \A j \in DOMAIN p : j > i => p[j] # "/") - 1)
    ELSE << >>

\* the listing ret (a map by path, or a list of paths) shows the write wv of
\* the entry of path p: the value set, or no entry after a delete
ShowsAll(ret, p, wv) ==
    IF wv.nil
    THEN \A k \in DOMAIN ret : splitLeaf(k) # splitLeaf(p)
    ELSE \E k \in DOMAIN ret : splitLeaf(k) = splitLeaf(p) /\ ret[k] = wv.b

ShowsKeys(keys, p, wv) ==
    wv.nil = (\A i \in DOMAIN keys : splitLeaf(keys[i]) # splitLeaf(p))

\* an open read-write transaction t reads the entry of path p as its own
\* last write wv to it: through Get
ReadsOwnGet(t, p, wv) ==
    xactGet(Enc, txs[t], p) = [panic |-> FALSE, val |-> wv, err |-> NoErr]

\* and through All and AllKeys of the bucket of p, in whatever order ForEach
\* visits its names
ReadsOwnAll(t, p, wv) ==
    \A ord \in Orders(AllNames(Enc, txs[t], DirOf(p))) :
       /\ \E r \in { xactAll(Enc, txs[t], DirOf(p), ord) } :
             r.err = NoErr /\ ShowsAll(r.ret, p, wv)
       /\ \E r \in { xactAllKeys(Enc, txs[t], DirOf(p), ord) } :
             r.err = NoErr /\ ShowsKeys(r.keys, p, wv)

\* C38: read-your-writes.  In every open read-write transaction, for every
\* path P the transaction has set or deleted, Get(P) returns the value of
\* the last Set, or nil after a Del, and All and AllKeys of P's bucket return
\* nil errors and show that value, or no entry for P, before any commit.
C38_ReadYourWrites ==
    \A t \in TxIds :
       (txs[t].st = "open" /\ txs[t].wr)
          => \A p \in Paths :
                splitLeaf(p) \in DOMAIN txs[t].w
                   => /\ ReadsOwnGet(t, p, txs[t].w[splitLeaf(p)])
                      /\ ReadsOwnAll(t, p, txs[t].w[splitLeaf(p)])

====
